---- MODULE Spec2Model ----
(***************************************************************************)
(* A model of goctest (src/goctest.go, the first main package of the file):*)
(* the event loop of main, the prefix narrowing (common), the counters     *)
(* (summary.add), the in-flight output buffer keyed by TestEvent.name and  *)
(* the failure log, followed by the summary and the failure dump; the      *)
(* three progress reporters; the start of the producing process and the    *)
(* signal watcher of mkContext.                                            *)
(*                                                                         *)
(* Strings are sequences of one-character strings, so that indexing,       *)
(* slicing, HasPrefix and TrimPrefix are computed as the Go code computes  *)
(* them.  The Output text of the n-th decoded record is modelled by the    *)
(* number n: every record carries its own chunk of text.                   *)
(***************************************************************************)
EXTENDS Integers, Sequences, FiniteSets, TLC

VARIABLES
    pc,          \* where main is: "running", "summarizing", "dump", "done", "fatal"
    prefix,      \* main's prefix
    sums,        \* main's sums: [tests |-> sums, packages |-> sums]
    inProgress,  \* main's inProgress: name -> sequence of events
    fails,       \* main's fails
    ev,          \* the event of the current iteration of the loop (NoEvent before the first)
    err,         \* the err of dec.Decode: "nil" or "decode"
    exit,        \* the exit status of the process, -1 while it runs
    summaries,   \* how many times progress.summarize was called
    printed,     \* the Output texts printed by the failure dump, in order
    trace,       \* history: the events decoded so far, as classified
    ca, cb, cr,  \* arguments and results of common, for its algebra
    progress,    \* main's progress: "default", "quiet" or "verbose"
    needsNL,     \* quietProgress.needsNL
    out,         \* what the reporters and main wrote to stdout before the dump, as tokens
    shown,       \* what summary.big computed for the summary (NotShown before)
    mode,        \* where the stream comes from: "gotest", "test2json" or "stdin"
    proc,        \* the spawned process: "none", "running" or "killed"
    ctxDone,     \* the context of mkContext is cancelled
    watcher,     \* the goroutine of mkContext: "select" or "returned"
    ch,          \* the channel of mkContext: [buf |-> signals queued, closed |-> BOOLEAN]
    notify,      \* signal.Notify(ch, os.Interrupt) is in effect
    signals      \* history: how many interrupts were sent to the process

outVars == <<progress, needsNL, out, shown>>

sigVars == <<mode, proc, ctxDone, watcher, ch, notify, signals>>

vars == <<pc, prefix, sums, inProgress, fails, ev, err, exit, summaries, printed,
          trace, ca, cb, cr, progress, needsNL, out, shown,
          mode, proc, ctxDone, watcher, ch, notify, signals>>

loopVars == <<pc, prefix, sums, inProgress, fails, ev, err, exit, summaries,
              printed, trace>>

-----------------------------------------------------------------------------
(* Bounds *)

\* events decoded in one run of the general specification
MaxEvents == 3
\* events decoded in one run of the specifications over a narrow alphabet
MaxDeep == 5
\* length of the strings handed to common in SpecCommon
MaxLen == 4
\* interrupts sent to the process in one run
MaxSignals == 2

\* the largest number of tests that passed, that failed and that were skipped
\* in the runs whose summary is examined
MaxCount == 12

-----------------------------------------------------------------------------
(* Strings *)

\* const unsetPrefix = " -(unset)- "
unsetPrefix == <<" ", "-", "(", "u", "n", "s", "e", "t", ")", "-", " ">>

\* the one rune U+2026 (horizontal ellipsis) that pkg() puts in front
ELLIPSIS == "..."

\* strings.HasPrefix(s, p)
HasPrefix(s, p) == Len(p) <= Len(s) /\ SubSeq(s, 1, Len(p)) = p

\* strings.TrimPrefix(s, p)
TrimPrefix(s, p) == IF HasPrefix(s, p) THEN SubSeq(s, Len(p) + 1, Len(s)) ELSE s

\* The loop of common: i and last are the Go (0-based) values, a is the
\* shorter string.  Returns the final value of last.
RECURSIVE commonLoop(_, _, _, _)
commonLoop(a, b, i, last) ==
    IF i >= Len(a) THEN last
    ELSE IF a[i + 1] # b[i + 1] THEN last
    ELSE commonLoop(a, b, i + 1, IF a[i + 1] = "/" THEN i ELSE last)

\* common without its first test (a == b)
common_noEq(a, b) ==
    LET s == IF Len(a) > Len(b) THEN b ELSE a
        l == IF Len(a) > Len(b) THEN a ELSE b
        last == commonLoop(s, l, 0, -1)
    IN  IF last = -1 THEN <<>> ELSE SubSeq(s, 1, last)

\* common that returns a[:last+1], the separator included
common_keepSlash(a, b) ==
    IF a = b THEN a
    ELSE LET s == IF Len(a) > Len(b) THEN b ELSE a
             l == IF Len(a) > Len(b) THEN a ELSE b
             last == commonLoop(s, l, 0, -1)
         IN  IF last = -1 THEN <<>> ELSE SubSeq(s, 1, last + 1)

\* func common(a, b string) string
common(a, b) ==
    IF a = b THEN a
    ELSE LET s == IF Len(a) > Len(b) THEN b ELSE a
             l == IF Len(a) > Len(b) THEN a ELSE b
             last == commonLoop(s, l, 0, -1)
         IN  IF last = -1 THEN <<>> ELSE SubSeq(s, 1, last)

-----------------------------------------------------------------------------
(* TestEvent *)

NoEvent == [Action |-> "", Package |-> <<>>, Test |-> <<>>, Output |-> 0,
            prefix |-> <<>>]

\* pkg without `if pkg == "" { pkg = "/" }`
pkg_noRoot(e) ==
    IF e.prefix = <<>> \/ e.prefix = unsetPrefix THEN e.Package
    ELSE <<ELLIPSIS>> \o TrimPrefix(e.Package, e.prefix)

\* func (ev *TestEvent) pkg() string
pkg(e) ==
    IF e.prefix = <<>> \/ e.prefix = unsetPrefix THEN e.Package
    ELSE LET p == TrimPrefix(e.Package, e.prefix)
         IN  <<ELLIPSIS>> \o (IF p = <<>> THEN <<"/">> ELSE p)

\* func (ev *TestEvent) name() string
name(e) ==
    LET p == pkg(e)
    IN  IF p = <<>> THEN e.Test ELSE p \o <<":">> \o e.Test

-----------------------------------------------------------------------------
(* sums and summary *)

ZeroSums == [total |-> 0, failed |-> 0, skipped |-> 0, passed |-> 0]

\* addFail that forgets the total
addFail_noTotal(s) == [s EXCEPT !.failed = @ + 1]

addFail(s) == [s EXCEPT !.failed = @ + 1, !.total = @ + 1]

addSkip(s) == [s EXCEPT !.skipped = @ + 1, !.total = @ + 1]

addPass(s) == [s EXCEPT !.total = @ + 1, !.passed = @ + 1]

\* the switch of summary.add, on the sums it selected
addTo(s, action) ==
    CASE action = "pass" -> addPass(s)
      [] action = "skip" -> addSkip(s)
      [] action = "fail" -> addFail(s)
      [] OTHER -> s

\* summary.add that tallies every event in the test counters
add_testsOnly(ss, e) == [ss EXCEPT !.tests = addTo(@, e.Action)]

\* func (ss *summary) add(ev *TestEvent)
add(ss, e) ==
    IF e.Test = <<>>
    THEN [ss EXCEPT !.packages = addTo(@, e.Action)]
    ELSE [ss EXCEPT !.tests = addTo(@, e.Action)]

\* isZero that forgets the skipped tests
isZero_totalOnly(ss) == ss.tests.total <= 0

\* func (ss *summary) isZero() bool
isZero(ss) == ss.tests.total - ss.tests.skipped <= 0

\* Go's a / b on ints, b # 0: the quotient truncated toward zero
GoDiv(a, b) ==
    LET abs(x) == IF x < 0 THEN -x ELSE x
        q == abs(a) \div abs(b)
    IN  IF (a < 0) = (b < 0) THEN q ELSE -q

\* the table of colourForRatio has 9 entries, indexed 0..8
ColourTableLen == 9

\* colourForRatio without `if r == 9 { r = 8 }`
colourForRatio_noFold(p, q) ==
    LET r0 == GoDiv(9 * p, q)
    IN  IF r0 < 0 THEN 0 ELSE r0

\* func colourForRatio(p, q int): the index r into the table (q # 0)
colourForRatio(p, q) ==
    LET r0 == GoDiv(9 * p, q)
        r1 == IF r0 = 9 THEN 8 ELSE r0
    IN  IF r1 < 0 THEN 0 ELSE r1

NotShown == [called |-> FALSE]

\* summary.big that divides by the total, skipped tests included
big_skippedCount(ss) ==
    LET z == isZero(ss)
        denom == ss.tests.total
        panicked == ~z /\ denom = 0
        raw == IF z \/ panicked THEN 0 ELSE GoDiv(100 * ss.tests.passed, denom)
        p == IF raw > 100 THEN 100 ELSE IF raw < 0 THEN 0 ELSE raw
        d == p % 10
        r == p \div 10
    IN  [called |-> TRUE, panic |-> panicked, zero |-> z, p |-> p,
         d |-> d, r |-> r,
         digits |-> IF z THEN <<0>>
                    ELSE IF p = 100 THEN <<1, 0, 0>>
                    ELSE IF r > 0 THEN <<r, d>> ELSE <<d>>,
         colour |-> IF z \/ panicked THEN -1
                    ELSE colourForRatio(ss.tests.passed, denom),
         divisors |-> IF z THEN {} ELSE {denom}]

\* func (ss *summary) big(fnt *font): what it computes, not the glyphs.
\* panic: an integer division by zero; zero: the "no tests run" rows are
\* shown; p, d, r: the percentage and its digits; digits: the indexes into
\* fnt.numerals it uses; colour: the index colourForRatio used (-1 when it
\* was not called); divisors: the denominators it divided by.
big(ss) ==
    LET z == isZero(ss)
        denom == ss.tests.total - ss.tests.skipped
        panicked == ~z /\ denom = 0
        raw == IF z \/ panicked THEN 0 ELSE GoDiv(100 * ss.tests.passed, denom)
        p == IF raw > 100 THEN 100 ELSE IF raw < 0 THEN 0 ELSE raw
        d == p % 10
        r == p \div 10
    IN  [called |-> TRUE, panic |-> panicked, zero |-> z, p |-> p,
         d |-> d, r |-> r,
         digits |-> IF z THEN <<0>>
                    ELSE IF p = 100 THEN <<1, 0, 0>>
                    ELSE IF r > 0 THEN <<r, d>> ELSE <<d>>,
         colour |-> IF z \/ panicked THEN -1
                    ELSE colourForRatio(ss.tests.passed, denom),
         divisors |-> IF z THEN {} ELSE {denom}]

-----------------------------------------------------------------------------
(* progressReporter: what report and summarize write, as tokens.  A "line"   *)
(* ends with a line break, a "glyph" does not, "nl" is a bare line break and *)
(* "summary" is the text of the summary.                                     *)

Token(kind, by, text) == [kind |-> kind, by |-> by, text |-> text]

\* func (*defaultProgress) report(ev *TestEvent)
defaultReport(e) ==
    IF e.Test # <<>> THEN <<>>
    ELSE CASE e.Action = "pass" -> <<Token("line", "report", pkg(e))>>
           [] e.Action = "skip" -> <<Token("line", "report", pkg(e)),
                                     Token("line", "report", pkg(e))>>
           [] e.Action = "fail" -> <<Token("line", "report", pkg(e))>>
           [] OTHER -> <<>>

\* verboseProgress.report that also prints a failed package
verboseReport_pkgFail(e) ==
    CASE e.Action = "pass" ->
             IF e.Test # <<>> THEN <<Token("line", "report", name(e))>> ELSE <<>>
      [] e.Action = "skip" ->
             IF e.Test # <<>> THEN <<Token("line", "report", name(e))>>
             ELSE <<Token("line", "report", pkg(e))>>
      [] e.Action = "fail" ->
             IF e.Test # <<>> THEN <<Token("line", "report", name(e))>>
             ELSE <<Token("line", "report", pkg(e))>>
      [] OTHER -> <<>>

\* func (*verboseProgress) report(ev *TestEvent)
verboseReport(e) ==
    CASE e.Action = "pass" ->
             IF e.Test # <<>> THEN <<Token("line", "report", name(e))>> ELSE <<>>
      [] e.Action = "skip" ->
             IF e.Test # <<>> THEN <<Token("line", "report", name(e))>>
             ELSE <<Token("line", "report", pkg(e))>>
      [] e.Action = "fail" ->
             IF e.Test # <<>> THEN <<Token("line", "report", name(e))>> ELSE <<>>
      [] OTHER -> <<>>

\* func (r *quietProgress) report(ev *TestEvent): what it prints
quietReport(e) ==
    IF e.Test # <<>> THEN <<>>
    ELSE IF e.Action \in {"pass", "skip", "fail"}
    THEN <<Token("glyph", "report", pkg(e))>>
    ELSE <<>>

\* quietProgress.report that owes no line break after a skipped package
quietNeedsNL_notSkip(nl, e) ==
    IF e.Test = <<>> /\ e.Action \in {"pass", "fail"} THEN TRUE ELSE nl

\* func (r *quietProgress) report(ev *TestEvent): r.needsNL afterwards
quietNeedsNL(nl, e) ==
    IF e.Test = <<>> /\ e.Action \in {"pass", "skip", "fail"} THEN TRUE ELSE nl

\* progress.report(&ev), by the dynamic type of progress
report(strategy, e) ==
    CASE strategy = "default" -> defaultReport(e)
      [] strategy = "verbose" -> verboseReport(e)
      [] strategy = "quiet" -> quietReport(e)

\* line 522 and progress.summarize(&sums): main's line break, then for
\* quietProgress the line break it owes, then the summary
summarizeOut(strategy, nl) ==
    <<Token("nl", "main", <<>>)>>
    \o (IF strategy = "quiet" /\ nl THEN <<Token("nl", "summarize", <<>>)>> ELSE <<>>)
    \o <<Token("summary", "summarize", <<>>)>>

-----------------------------------------------------------------------------
(* the map inProgress *)

EmptyMap == [k \in {} |-> <<>>]

\* inProgress[k]: the zero value (a nil slice) when k is absent
Get(m, k) == IF k \in DOMAIN m THEN m[k] ELSE <<>>

\* inProgress[k] = v
Put(m, k, v) == [x \in (DOMAIN m) \cup {k} |-> IF x = k THEN v ELSE m[x]]

\* delete(inProgress, k)
Delete(m, k) == [x \in (DOMAIN m) \ {k} |-> m[x]]

-----------------------------------------------------------------------------
(* main: the event loop *)

\* the prefix adjusted to anything, instead of narrowed, on a mismatch
observe_reset(p, package) ==
    IF p = unsetPrefix THEN package
    ELSE IF ~HasPrefix(package, p) THEN package
    ELSE p

\* the prefix is guessed from the first package and never adjusted
observe_noAdjust(p, package) ==
    IF p = unsetPrefix THEN package ELSE p

\* lines 496-502: the prefix after an event of this package
observe(p, package) ==
    IF p = unsetPrefix THEN package
    ELSE IF ~HasPrefix(package, p) THEN common(p, package)
    ELSE p

\* lines 508-520 on inProgress
bufferAfter(m, e) ==
    IF e.Test = <<>> THEN m
    ELSE IF e.Action \in {"fail", "pass", "skip"} THEN Delete(m, name(e))
    ELSE Put(m, name(e), Append(Get(m, name(e)), e))

\* lines 508-520 on fails
failsAfter(f, m, e) ==
    IF e.Test # <<>> /\ e.Action = "fail" THEN f \o Get(m, name(e)) ELSE f

\* One iteration of the loop for a record that decodes: raw has the fields
\* Action, Package and Test; its Output is the text of record Len(trace)+1.
Decode(raw) ==
    /\ pc = "running"
    /\ LET p == observe(prefix, raw.Package)
           e == [Action |-> raw.Action, Package |-> raw.Package, Test |-> raw.Test,
                 Output |-> Len(trace) + 1, prefix |-> p]
       IN  /\ prefix' = p
           /\ ev' = e
           /\ sums' = add(sums, e)
           /\ fails' = failsAfter(fails, inProgress, e)
           /\ inProgress' = bufferAfter(inProgress, e)
           /\ trace' = Append(trace, e)
           /\ out' = out \o report(progress, e)
           /\ needsNL' = IF progress = "quiet" THEN quietNeedsNL(needsNL, e)
                         ELSE needsNL
    /\ err' = "nil"
    /\ UNCHANGED <<pc, exit, summaries, printed, ca, cb, cr, progress, shown>>
    /\ UNCHANGED sigVars

\* a decode error that is logged and then taken for the end of the stream
DecodeError_nonFatal ==
    /\ pc = "running"
    /\ err' = "decode"
    /\ pc' = "summarizing"
    /\ UNCHANGED <<prefix, sums, inProgress, fails, ev, exit, summaries, printed,
                   trace, ca, cb, cr>>
    /\ UNCHANGED <<outVars, sigVars>>

\* lines 492-495: dec.Decode fails, log.Fatal(err) exits with status 1
DecodeError ==
    /\ pc = "running"
    /\ err' = "decode"
    /\ pc' = "fatal"
    /\ exit' = 1
    /\ UNCHANGED <<prefix, sums, inProgress, fails, ev, summaries, printed, trace,
                   ca, cb, cr>>
    /\ UNCHANGED <<outVars, sigVars>>

\* line 490: dec.More() is false
EndOfStream ==
    /\ pc = "running"
    /\ pc' = "summarizing"
    /\ UNCHANGED <<prefix, sums, inProgress, fails, ev, err, exit, summaries,
                   printed, trace, ca, cb, cr>>
    /\ UNCHANGED <<outVars, sigVars>>

\* the summary followed by the dump whatever len(fails) is
Summarize_alwaysDump ==
    /\ pc = "summarizing"
    /\ summaries' = summaries + 1
    /\ out' = out \o summarizeOut(progress, needsNL)
    /\ shown' = big(sums)
    /\ pc' = "dump"
    /\ UNCHANGED <<prefix, sums, inProgress, fails, ev, err, exit, printed, trace,
                   ca, cb, cr, progress, needsNL>>
    /\ UNCHANGED sigVars

\* lines 522-524: the line break, the summary (a division by zero in
\* summary.big is a runtime panic, exit status 2), then the test of len(fails)
Summarize ==
    /\ pc = "summarizing"
    /\ summaries' = summaries + 1
    /\ out' = out \o summarizeOut(progress, needsNL)
    /\ shown' = big(sums)
    /\ IF big(sums).panic THEN pc' = "panic" /\ exit' = 2
       ELSE IF Len(fails) > 0
       THEN pc' = "dump" /\ exit' = exit
       ELSE pc' = "done" /\ exit' = 0
    /\ UNCHANGED <<prefix, sums, inProgress, fails, ev, err, printed, trace,
                   ca, cb, cr, progress, needsNL>>
    /\ UNCHANGED sigVars

\* the dump followed by a non-zero exit status
Dump_exitOne ==
    /\ pc = "dump"
    /\ printed' = [i \in 1..Len(fails) |-> fails[i].Output]
    /\ pc' = "done"
    /\ exit' = 1
    /\ UNCHANGED <<prefix, sums, inProgress, fails, ev, err, summaries, trace,
                   ca, cb, cr>>
    /\ UNCHANGED <<outVars, sigVars>>

\* lines 525-529: the failure dump, and main returns
Dump ==
    /\ pc = "dump"
    /\ printed' = [i \in 1..Len(fails) |-> fails[i].Output]
    /\ pc' = "done"
    /\ exit' = 0
    /\ UNCHANGED <<prefix, sums, inProgress, fails, ev, err, summaries, trace,
                   ca, cb, cr>>
    /\ UNCHANGED <<outVars, sigVars>>

\* lines 490-495 for a line of free text in the stream: dec.More() is true,
\* dec.Decode returns a syntax error and log.Fatal(err) exits with status 1
FreeFormLine ==
    /\ pc = "running"
    /\ err' = "syntax"
    /\ pc' = "fatal"
    /\ exit' = 1
    /\ UNCHANGED <<prefix, sums, inProgress, fails, ev, summaries, printed, trace,
                   ca, cb, cr>>
    /\ UNCHANGED <<outVars, sigVars>>

-----------------------------------------------------------------------------
(* main before the loop, mkContext and exec.CommandContext *)

\* the process of goctest has not ended
Alive == pc \in {"starting", "running", "summarizing", "dump"}

\* lines 454-485 when nothing fails: with "-" the stream is os.Stdin and
\* nothing is spawned; otherwise cmd.Start() spawns the producer, unless the
\* context is already cancelled: then Start returns its error and
\* log.Fatal(err) exits with status 1
Start ==
    /\ pc = "starting"
    /\ IF mode = "stdin"
       THEN pc' = "running" /\ UNCHANGED <<proc, err, exit>>
       ELSE IF ctxDone
       THEN pc' = "fatal" /\ err' = "spawn" /\ exit' = 1 /\ proc' = proc
       ELSE pc' = "running" /\ proc' = "running" /\ UNCHANGED <<err, exit>>
    /\ UNCHANGED <<prefix, sums, inProgress, fails, ev, summaries, printed, trace,
                   ca, cb, cr>>
    /\ UNCHANGED <<outVars, mode, ctxDone, watcher, ch, notify, signals>>

\* lines 458-461 and 476-483: exec.LookPath, cmd.StdoutPipe or cmd.Start
\* fails, log.Fatal(err) exits with status 1
StartFail ==
    /\ pc = "starting"
    /\ mode # "stdin"
    /\ err' = "spawn"
    /\ pc' = "fatal"
    /\ exit' = 1
    /\ UNCHANGED <<prefix, sums, inProgress, fails, ev, summaries, printed, trace,
                   ca, cb, cr>>
    /\ UNCHANGED <<outVars, sigVars>>

\* An interrupt is sent to the process.  While signal.Notify is in effect the
\* runtime sends it to ch without blocking (it is dropped when the buffer of
\* one is full); otherwise the process dies of it.
Interrupt ==
    /\ Alive
    /\ signals < MaxSignals
    /\ signals' = signals + 1
    /\ IF notify
       THEN /\ ch' = [ch EXCEPT !.buf = IF @ < 1 THEN 1 ELSE @]
            /\ UNCHANGED <<pc, exit>>
       ELSE /\ pc' = "interrupted"
            /\ exit' = 130
            /\ ch' = ch
    /\ UNCHANGED <<prefix, sums, inProgress, fails, ev, err, summaries, printed,
                   trace, ca, cb, cr>>
    /\ UNCHANGED <<outVars, mode, proc, ctxDone, watcher, notify>>

\* lines 390-402, the goroutine of mkContext: its select takes <-ctx.Done()
\* (signal.Stop, close) or a signal from ch (cancel, unless the channel was
\* closed), and the goroutine returns
Watcher ==
    /\ Alive
    /\ watcher = "select"
    /\ ctxDone \/ ch.buf > 0 \/ ch.closed
    /\ IF ctxDone
       THEN /\ notify' = FALSE
            /\ ch' = [ch EXCEPT !.closed = TRUE]
            /\ ctxDone' = ctxDone
       ELSE IF ch.buf > 0
       THEN /\ ch' = [ch EXCEPT !.buf = 0]
            /\ ctxDone' = TRUE
            /\ notify' = notify
       ELSE UNCHANGED <<ch, ctxDone, notify>>
    /\ watcher' = "returned"
    /\ UNCHANGED <<pc, prefix, sums, inProgress, fails, ev, err, exit, summaries,
                   printed, trace, ca, cb, cr>>
    /\ UNCHANGED <<outVars, mode, proc, signals>>

\* exec.CommandContext (lines 470, 473): once the context is done the
\* producer is killed
Kill ==
    /\ Alive
    /\ ctxDone
    /\ proc = "running"
    /\ proc' = "killed"
    /\ UNCHANGED <<pc, prefix, sums, inProgress, fails, ev, err, exit, summaries,
                   printed, trace, ca, cb, cr>>
    /\ UNCHANGED <<outVars, mode, ctxDone, watcher, ch, notify, signals>>

-----------------------------------------------------------------------------
(* Inputs *)

\* Package identifiers are import paths (or empty, as test2json writes them
\* without -p): they hold no space, so none of them equals unsetPrefix.

S_a == <<"a">>
S_ab == <<"a", "/", "b">>
S_ac == <<"a", "/", "c">>
S_abc == <<"a", "/", "b", "c">>
S_a_b_c == <<"a", "/", "b", "/", "c">>
S_a_b_d == <<"a", "/", "b", "/", "d">>
S_a_x == <<"a", "/", "x">>
T1 == <<"T">>

Raws(actions, packages, tests) ==
    [Action : actions, Package : packages, Test : tests]

\* mkContext, and the flags -q, -v, - and -c: the reporter and the source of
\* the stream
InitFlags(strategies, modes) ==
    /\ progress \in strategies
    /\ needsNL = FALSE
    /\ out = <<>>
    /\ shown = NotShown
    /\ mode \in modes
    /\ ctxDone = FALSE
    /\ watcher = "select"
    /\ ch = [buf |-> 0, closed |-> FALSE]
    /\ notify = TRUE
    /\ signals = 0

\* main's variables before the loop, prefix being the value of -trim, the
\* output of `go list -m`, or unsetPrefix
InitData(seeds) ==
    /\ prefix \in seeds
    /\ sums = [tests |-> ZeroSums, packages |-> ZeroSums]
    /\ inProgress = EmptyMap
    /\ fails = <<>>
    /\ ev = NoEvent
    /\ err = "nil"
    /\ exit = -1
    /\ summaries = 0
    /\ printed = <<>>
    /\ trace = <<>>
    /\ ca = <<>> /\ cb = <<>> /\ cr = <<>>

\* the state of main when the loop starts; `go test -json` was spawned
\* and the default reporter reports
InitLoop(seeds) ==
    /\ pc = "running"
    /\ InitFlags({"default"}, {"gotest"})
    /\ proc = "running"
    /\ InitData(seeds)

\* General specification: two packages under a/, one test and the package
\* itself, every terminal action, output and run; the prefix is unset or
\* seeded with a/b.
Init == InitLoop({unsetPrefix, S_ab})

Next ==
    \/ \E raw \in Raws({"pass", "fail", "skip", "output", "run"},
                       {S_ab, S_ac}, {<<>>, T1}) :
          Len(trace) < MaxEvents /\ Decode(raw)
    \/ DecodeError
    \/ EndOfStream
    \/ Summarize
    \/ Dump

Spec == Init /\ [][Next]_vars

\* Longer runs over a narrow alphabet: the two packages and their parent, one
\* test, output, pass and fail; the prefix starts unset.
InitDeep == InitLoop({unsetPrefix})

NextDeep ==
    \/ \E raw \in Raws({"pass", "fail", "output"}, {S_ab, S_ac, S_a}, {T1}) :
          Len(trace) < MaxDeep /\ Decode(raw)
    \/ DecodeError
    \/ EndOfStream
    \/ Summarize
    \/ Dump

SpecDeep == InitDeep /\ [][NextDeep]_vars

\* Many packages, for the prefix: siblings, a package whose last segment
\* extends another's, deeper packages, the parent and the empty package (what
\* test2json writes without -p); the prefix starts unset or seeded.
PrefixPackages == {<<>>, S_a, S_ab, S_abc, S_a_b_c, S_a_b_d, S_a_x}

InitPrefix == InitLoop({unsetPrefix, <<>>, S_ab, <<"a", "/">>})

NextPrefix ==
    \/ \E raw \in Raws({"fail", "output"}, PrefixPackages, {T1}) :
          Len(trace) < MaxEvents /\ Decode(raw)
    \/ DecodeError
    \/ EndOfStream
    \/ Summarize
    \/ Dump

SpecPrefix == InitPrefix /\ [][NextPrefix]_vars

\* The same packages with the prefix left to the loop: -trim was not given and
\* `go list -m` failed.
InitInfer == InitLoop({unsetPrefix})

SpecInfer == InitInfer /\ [][NextPrefix]_vars

\* The three reporters on one package: every terminal action, output and the
\* action "error", at package and at test scope, and lines of free text.
Strategies == {"default", "quiet", "verbose"}

InitReport ==
    /\ pc = "running"
    /\ InitFlags(Strategies, {"gotest"})
    /\ proc = "running"
    /\ InitData({unsetPrefix})

NextReport ==
    \/ \E raw \in Raws({"pass", "fail", "skip", "output", "error"},
                       {S_ab}, {<<>>, T1}) :
          Len(trace) < MaxEvents /\ Decode(raw)
    \/ DecodeError
    \/ FreeFormLine
    \/ EndOfStream
    \/ Summarize
    \/ Dump

SpecReport == InitReport /\ [][NextReport]_vars

\* The whole of main in its three input modes, with interrupts: the start,
\* the loop on one package (pass, fail, output), the summary and the dump.
Modes == {"gotest", "test2json", "stdin"}

InitStart ==
    /\ pc = "starting"
    /\ InitFlags({"default"}, Modes)
    /\ proc = "none"
    /\ InitData({unsetPrefix})

DecodeNarrow ==
    \E raw \in Raws({"pass", "fail", "output"}, {S_ab}, {<<>>, T1}) :
        Len(trace) < MaxEvents /\ Decode(raw)

NextRun ==
    \/ Start
    \/ StartFail
    \/ DecodeNarrow
    \/ DecodeError
    \/ FreeFormLine
    \/ EndOfStream
    \/ Summarize
    \/ Dump
    \/ Interrupt
    \/ Watcher
    \/ Kill

SpecRun == InitStart /\ [][NextRun]_vars

\* Runs on a well-formed stream (every record decodes) with the progress the
\* code provides: the goroutines of mkContext and of exec.CommandContext run,
\* main goes on when it is not blocked, and the stream of a killed producer
\* ends.  Nothing ends the stream of os.Stdin or of a producer that lives.
NextWellFormed ==
    \/ Start
    \/ StartFail
    \/ DecodeNarrow
    \/ EndOfStream
    \/ Summarize
    \/ Dump
    \/ Interrupt
    \/ Watcher
    \/ Kill

SpecInterrupt ==
    /\ InitStart
    /\ [][NextWellFormed]_vars
    /\ WF_vars(Start)
    /\ WF_vars(Watcher)
    /\ WF_vars(Kill)
    /\ WF_vars(EndOfStream /\ proc = "killed")
    /\ WF_vars(Summarize)
    /\ WF_vars(Dump)

\* Runs on a finite well-formed stream: every record decodes and the stream
\* ends, so main is never blocked for ever.
NextFinite ==
    \/ \E raw \in Raws({"pass", "fail", "skip", "output"}, {S_ab},
                       {<<>>, T1}) :
          Len(trace) < MaxEvents /\ Decode(raw)
    \/ EndOfStream
    \/ Summarize
    \/ Dump

SpecFinite == InitLoop({unsetPrefix}) /\ [][NextFinite]_vars /\ WF_vars(NextFinite)

\* The summary after np tests passed, nf failed and ns were skipped, for all
\* np, nf, ns up to MaxCount: main has processed that many events of the
\* tests of one package, none with output, and the stream ends.
CountedTrace(np, nf, ns) ==
    [i \in 1..(np + nf + ns) |->
        [Action |-> IF i <= np THEN "pass"
                    ELSE IF i <= np + nf THEN "fail" ELSE "skip",
         Package |-> S_ab, Test |-> T1, Output |-> i, prefix |-> S_ab]]

\* sums after sums.add(&ev) for the first n events of tr
RECURSIVE Tally(_, _)
Tally(tr, n) ==
    IF n = 0 THEN [tests |-> ZeroSums, packages |-> ZeroSums]
    ELSE add(Tally(tr, n - 1), tr[n])

InitSummary ==
    /\ pc = "running"
    /\ InitFlags({"default"}, {"gotest"})
    /\ proc = "running"
    /\ \E np, nf, ns \in 0..MaxCount :
          /\ trace = CountedTrace(np, nf, ns)
          /\ sums = Tally(trace, Len(trace))
          /\ ev = IF Len(trace) = 0 THEN NoEvent ELSE trace[Len(trace)]
          /\ prefix = IF Len(trace) = 0 THEN unsetPrefix ELSE S_ab
    /\ inProgress = EmptyMap
    /\ fails = <<>>
    /\ err = "nil"
    /\ exit = -1
    /\ summaries = 0
    /\ printed = <<>>
    /\ ca = <<>> /\ cb = <<>> /\ cr = <<>>

NextSummary ==
    \/ EndOfStream
    \/ Summarize

SpecSummary == InitSummary /\ [][NextSummary]_vars

-----------------------------------------------------------------------------
(* common on its own: every pair of strings over a, b and / up to MaxLen *)

RECURSIVE StringsUpTo(_)
StringsUpTo(k) ==
    IF k = 0 THEN {<<>>}
    ELSE LET shorter == StringsUpTo(k - 1)
         IN  shorter \cup {Append(s, c) : s \in {t \in shorter : Len(t) = k - 1},
                                          c \in {"a", "b", "/"}}

NotCalled == [called |-> FALSE]

InitCommon ==
    /\ pc = "common"
    /\ prefix = unsetPrefix
    /\ sums = [tests |-> ZeroSums, packages |-> ZeroSums]
    /\ inProgress = EmptyMap
    /\ fails = <<>>
    /\ ev = NoEvent
    /\ err = "nil"
    /\ exit = -1
    /\ summaries = 0
    /\ printed = <<>>
    /\ trace = <<>>
    /\ ca \in StringsUpTo(MaxLen)
    /\ cb \in StringsUpTo(MaxLen)
    /\ cr = NotCalled
    /\ InitFlags({"default"}, {"stdin"})
    /\ proc = "none"

\* what TestCommon calls: common(a, a), common(b, b), common(a, b), common(b, a)
CallCommon ==
    /\ pc = "common"
    /\ cr = NotCalled
    /\ cr' = [called |-> TRUE, aa |-> common(ca, ca), bb |-> common(cb, cb),
              ab |-> common(ca, cb), ba |-> common(cb, ca)]
    /\ UNCHANGED <<ca, cb>>
    /\ UNCHANGED <<loopVars, outVars, sigVars>>

NextCommon == CallCommon

SpecCommon == InitCommon /\ [][NextCommon]_vars

-----------------------------------------------------------------------------
(* Vocabulary of the properties *)

Terminal == {"pass", "skip", "fail"}

\* this step decoded and processed one event, which is ev'
Decoded == Len(trace') = Len(trace) + 1

SameTest(e, package, test) == e.Package = package /\ e.Test = test

\* the position in tr of the last pass, skip or fail of (package, test), or 0
LastTerminal(tr, package, test) ==
    LET at == {i \in 1..Len(tr) : SameTest(tr[i], package, test)
                                  /\ tr[i].Action \in Terminal}
    IN  IF at = {} THEN 0 ELSE CHOOSE i \in at : \A j \in at : j <= i

\* the events of (package, test) that arrived since its previous terminal
\* event (or since the start), in arrival order: what is buffered for it
Pending(tr, package, test) ==
    LET from == LastTerminal(tr, package, test)
    IN  SelectSeq(tr, LAMBDA e : SameTest(e, package, test) /\ e.Output > from)

\* e was buffered for a test whose next pass, skip or fail was a pass or a skip
Discarded(tr, e) ==
    \E j \in (e.Output + 1)..Len(tr) :
        /\ SameTest(tr[j], e.Package, e.Test)
        /\ tr[j].Action \in {"pass", "skip"}
        /\ \A k \in (e.Output + 1)..(j - 1) :
              ~(SameTest(tr[k], e.Package, e.Test) /\ tr[k].Action \in Terminal)

\* p is a prefix of s that ends where a segment of s ends
SegmentPrefix(p, s) ==
    /\ HasPrefix(s, p)
    /\ \/ Len(p) = 0
       \/ Len(p) = Len(s)
       \/ s[Len(p) + 1] = "/"
       \/ p[Len(p)] = "/"

Packages(tr) == [i \in 1..Len(tr) |-> tr[i].Package]

-----------------------------------------------------------------------------
(* C1 *)

\* C1: when a test-scope fail event is processed, what it appends to the
\* failure log is exactly what was buffered for its (Package, Test) since that
\* test's previous terminal event, in arrival order, whatever other packages
\* and tests came in between; a test-scope pass appends nothing.
C1_FailAppendsItsBuffer ==
    [][(Decoded /\ ev'.Test # <<>>) =>
          /\ ev'.Action = "fail" =>
                fails' = fails \o Pending(trace, ev'.Package, ev'.Test)
          /\ ev'.Action = "pass" => fails' = fails]_vars

-----------------------------------------------------------------------------
(* C2 *)

\* C2: output buffered for a test that then passed or was skipped is never in
\* the failure log afterwards.
C2_DiscardedNeverLogged ==
    \A i \in 1..Len(fails) : ~Discarded(trace, fails[i])

-----------------------------------------------------------------------------
(* C3 *)

\* C3: the failure log only grows at its end, the entries of one test are in
\* it in arrival order, and the dump prints the log in log order.
C3_LogAppendOnlyInOrder ==
    /\ [][HasPrefix(fails', fails)]_vars
    /\ [](\A i, j \in 1..Len(fails) :
             (i < j /\ SameTest(fails[i], fails[j].Package, fails[j].Test))
                => fails[i].Output < fails[j].Output)
    /\ []((pc = "done" /\ fails # <<>>)
             => printed = [i \in 1..Len(fails) |-> fails[i].Output])

-----------------------------------------------------------------------------
(* C4 *)

\* C4: for the test counters and for the package counters,
\* total = passed + failed + skipped in every reachable state.
C4_TotalIsSum ==
    \A s \in {sums.tests, sums.packages} :
        s.total = s.passed + s.failed + s.skipped

C4_Witness ==
    /\ sums.tests.failed > 0
    /\ sums.tests.passed > 0
    /\ sums.packages.skipped > 0

-----------------------------------------------------------------------------
(* C5 *)

Bumped(s, action) ==
    [total   |-> s.total + 1,
     passed  |-> s.passed + (IF action = "pass" THEN 1 ELSE 0),
     skipped |-> s.skipped + (IF action = "skip" THEN 1 ELSE 0),
     failed  |-> s.failed + (IF action = "fail" THEN 1 ELSE 0)]

C5_Frame ==
    Decoded =>
        IF ev'.Action \notin Terminal THEN sums' = sums
        ELSE IF ev'.Test = <<>>
        THEN /\ sums'.packages = Bumped(sums.packages, ev'.Action)
             /\ sums'.tests = sums.tests
        ELSE /\ sums'.tests = Bumped(sums.tests, ev'.Action)
             /\ sums'.packages = sums.packages

\* the events so far are those of one package with two tests that passed and
\* the pass of the package itself (with any output or run events)
ScenarioA ==
    LET testEnds == {i \in 1..Len(trace) : trace[i].Test # <<>>
                                           /\ trace[i].Action \in Terminal}
        pkgEnds  == {i \in 1..Len(trace) : trace[i].Test = <<>>
                                           /\ trace[i].Action \in Terminal}
    IN  /\ \A i, j \in 1..Len(trace) : trace[i].Package = trace[j].Package
        /\ Cardinality(testEnds) = 2
        /\ Cardinality(pkgEnds) = 1
        /\ \A i \in testEnds \cup pkgEnds : trace[i].Action = "pass"

\* C5: a pass, skip or fail with empty Test adds one to total and to the
\* matching field of the package counters and leaves the test counters alone;
\* with a Test it does so on the test counters and leaves the package counters
\* alone; any other action changes neither.  One package with two passing
\* tests ends with tests {total 2, passed 2}, packages {total 1, passed 1}
\* and an empty failure log.
C5_CountsByScope ==
    /\ [][C5_Frame]_vars
    /\ [](ScenarioA =>
            /\ sums.tests = [total |-> 2, passed |-> 2, failed |-> 0, skipped |-> 0]
            /\ sums.packages = [total |-> 1, passed |-> 1, failed |-> 0, skipped |-> 0]
            /\ fails = <<>>)

C5_Witness == ScenarioA

-----------------------------------------------------------------------------
(* C6 *)

\* C6: once a package was observed, the prefix is a prefix of every package
\* observed so far that ends on a segment boundary of that package.
C6_PrefixOnSegmentBoundary ==
    \A i \in 1..Len(trace) : SegmentPrefix(prefix, trace[i].Package)

-----------------------------------------------------------------------------
(* C7 *)

\* C7: once the prefix is set, an event leaves it as it is or replaces it by a
\* strictly shorter string that is a prefix of it.
C7_PrefixOnlyShrinks ==
    [][prefix # unsetPrefix =>
          \/ prefix' = prefix
          \/ Len(prefix') < Len(prefix) /\ HasPrefix(prefix, prefix')]_vars

\* the prefix was narrowed by some event after the first
C7_Witness ==
    \E i \in 1..(Len(trace) - 1) : Len(trace[i + 1].prefix) < Len(trace[i].prefix)

-----------------------------------------------------------------------------
(* C8 *)

\* the run saw a/b/c, a/b/d, a/x in that order
ScenarioC == Packages(trace) = <<S_a_b_c, S_a_b_d, S_a_x>>

\* C8 as stated: after a/b/c, a/b/d, a/x from the unset state the prefix is "a/".
C8_Original == ScenarioC => prefix = <<"a", "/">>

\* C8, amended: after a/b/c, a/b/d, a/x from the unset state the prefix is "a",
\* without the separator.
C8_PrefixIsA == ScenarioC => prefix = S_a

C8_Witness == ScenarioC

-----------------------------------------------------------------------------
(* C9 *)

\* C9: common(a, a) = a and common(a, b) = common(b, a), for all strings.
C9_CommonAlgebra ==
    cr.called => /\ cr.aa = ca
                 /\ cr.bb = cb
                 /\ cr.ab = cr.ba

\* two different strings with a common leading segment went through common
C9_Witness == cr.called /\ ca # cb /\ cr.ab # <<>>

-----------------------------------------------------------------------------
(* C10 *)

\* C10: after a record failed to decode the process has exited with status 1,
\* whatever was counted or buffered: no event is processed afterwards, the
\* summary is not produced and the failure dump is not printed.
C10_DecodeErrorAborts ==
    /\ [](err = "decode" =>
             /\ pc = "fatal"
             /\ exit = 1
             /\ summaries = 0
             /\ printed = <<>>)
    /\ [][err = "decode" => UNCHANGED loopVars]_vars

\* the decode error came after a failure was logged and with output buffered
C10_Witness ==
    /\ err = "decode"
    /\ fails # <<>>
    /\ DOMAIN inProgress # {}
    /\ sums.tests.failed > 0

-----------------------------------------------------------------------------
(* C11 *)

\* an interrupt was sent while main was in its loop
InterruptedRunning == signals > 0 /\ pc = "running"

\* C11: in every input mode, after an interrupt that arrives while main is in
\* its loop, main eventually reaches the summary (the producer, if one was
\* spawned, being stopped so that its stream ends).
C11_InterruptReachesSummary == InterruptedRunning ~> (summaries > 0)

\* the part of C11 that the code provides: when a producer was spawned
C11_SpawnedReachesSummary ==
    (InterruptedRunning /\ mode # "stdin") ~> (summaries > 0)

-----------------------------------------------------------------------------
(* C12 *)

\* the changes of phase that main can make
PhaseOrder ==
    { <<"running", "summarizing">>, <<"summarizing", "dump">>,
      <<"summarizing", "done">>, <<"dump", "done">> }

\* C12: on a finite well-formed stream main ends, its phases follow the order
\* running, summarizing, (dump), done, the summary is made exactly once and
\* after the last event, the dump follows the summary if and only if the
\* failure log is not empty, and no event is processed once the loop is left.
C12_PhasesInOrder ==
    /\ <>(pc = "done")
    /\ [][pc' # pc => <<pc, pc'>> \in PhaseOrder]_vars
    /\ [](summaries = IF pc \in {"running", "summarizing"} THEN 0 ELSE 1)
    /\ [][pc = "summarizing" /\ pc' # pc => (pc' = "dump" <=> fails # <<>>)]_vars
    /\ [](pc = "done" => printed = [i \in 1..Len(fails) |-> fails[i].Output])
    /\ [][pc # "running" =>
            UNCHANGED <<prefix, sums, inProgress, fails, ev, trace>>]_vars

\* a run ended after the summary and the dump of a failure
C12_Witness == pc = "done" /\ summaries = 1 /\ printed # <<>>

-----------------------------------------------------------------------------
(* C13 *)

\* C13: a run that reaches its end exits with status 0 whatever the outcomes
\* of its events were, so two runs that differ only in outcomes end alike;
\* a status other than 0 comes only with a fatal error (a record or line that
\* does not decode, a command that cannot be found or started).
C13_ExitIgnoresOutcomes ==
    /\ pc = "done" => exit = 0
    /\ exit \notin {-1, 0} => /\ pc = "fatal"
                              /\ err \in {"decode", "syntax", "spawn"}
    /\ pc = "fatal" => exit = 1

\* a run with a failed test and a failed package ended with status 0
C13_Witness ==
    /\ pc = "done"
    /\ exit = 0
    /\ sums.tests.failed > 0
    /\ sums.packages.failed > 0
    /\ printed # <<>>

-----------------------------------------------------------------------------
(* C14 *)

\* this step processed an error event of a package (no test name)
PackageError == Decoded /\ ev'.Action = "error" /\ ev'.Test = <<>>

\* the error event is counted once in the package counters only
C14_Tallied ==
    /\ sums'.tests = sums.tests
    /\ sums'.packages.total = sums.packages.total + 1
    /\ sums'.packages.passed + sums'.packages.skipped + sums'.packages.failed
         = sums.packages.passed + sums.packages.skipped
             + sums.packages.failed + 1

\* the output that arrived for the package itself since its previous end is
\* in the failure log
C14_Logged ==
    \A i \in 1..Len(Pending(trace, ev'.Package, <<>>)) :
        \E j \in 1..Len(fails') :
            fails'[j] = Pending(trace, ev'.Package, <<>>)[i]

\* C14: an error event of a package with no test name adds one to total and
\* to one field of the package counters and leaves the test counters alone,
\* and every chunk of output attached to it is in the failure log, hence in
\* the failure dump.
C14_ErrorTalliedAndLogged ==
    [][PackageError => C14_Tallied /\ C14_Logged]_vars

-----------------------------------------------------------------------------
(* C15 *)

\* this step read a line of free text from the stream
FreeFormRead == pc = "running" /\ err' = "syntax"

\* C15: a line of free text that is no record and no failure banner is not
\* fatal: main stays in its loop, the line is recorded as output in the
\* buffer under a placeholder identity, and no counter changes.
C15_FreeFormNonFatal ==
    [][FreeFormRead => /\ pc' = "running"
                       /\ exit' = exit
                       /\ sums' = sums
                       /\ inProgress' # inProgress]_vars

-----------------------------------------------------------------------------
(* C16 *)

\* what the step of one event added to the output
Emitted == SubSeq(out', Len(out) + 1, Len(out'))

\* every token of s is of the given kind
AllOfKind(s, kind) == \A i \in 1..Len(s) : s[i].kind = kind

\* this step processed a pass, skip or fail of a package (no test name)
PackageEnd == Decoded /\ ev'.Test = <<>> /\ ev'.Action \in Terminal

\* C16: without -q and -v, a pass, skip or fail of a package emits exactly one
\* line and every event of a test emits nothing.
C16_DefaultOneLinePerPackage ==
    [][Decoded /\ progress = "default" =>
          /\ AllOfKind(Emitted, "line")
          /\ PackageEnd => Len(Emitted) = 1
          /\ ev'.Test # <<>> => Len(Emitted) = 0]_vars

-----------------------------------------------------------------------------
(* C17 *)

\* a test of the package of e failed earlier in tr
TestFailedBefore(tr, e) ==
    \E i \in 1..Len(tr) : /\ tr[i].Package = e.Package
                          /\ tr[i].Test # <<>>
                          /\ tr[i].Action = "fail"

\* C17 as stated: with -v a pass, skip or fail of a test emits one line, a
\* skip of a package emits one line, and a fail of a package emits a line if
\* and only if no test of that package failed before.
C17_Original ==
    [][Decoded /\ progress = "verbose" =>
          /\ ev'.Test # <<>> /\ ev'.Action \in Terminal => Len(Emitted) = 1
          /\ ev'.Test = <<>> /\ ev'.Action = "skip" => Len(Emitted) = 1
          /\ ev'.Test = <<>> /\ ev'.Action = "fail" =>
                (Len(Emitted) = 1 <=> ~TestFailedBefore(trace, ev'))]_vars

\* C17, amended: with -v a pass, skip or fail of a test emits one line, a
\* skip of a package emits one line, and every other event, the fail and the
\* pass of a package included, emits nothing.
C17_VerboseLines ==
    [][Decoded /\ progress = "verbose" =>
          /\ AllOfKind(Emitted, "line")
          /\ Len(Emitted) =
               IF ev'.Action \in Terminal /\ (ev'.Test # <<>> \/ ev'.Action = "skip")
               THEN 1 ELSE 0]_vars

\* with -v a package failed without a failed test, after a line was emitted
C17_Witness ==
    /\ progress = "verbose"
    /\ ev.Action = "fail"
    /\ ev.Test = <<>>
    /\ sums.tests.failed = 0
    /\ out # <<>>

-----------------------------------------------------------------------------
(* C18 *)

\* the kinds of the tokens of s that were written by the given function
KindsBy(s, by) ==
    LET w == SelectSeq(s, LAMBDA t : t.by = by)
    IN  [i \in 1..Len(w) |-> w[i].kind]

GlyphEmitted == \E i \in 1..Len(out) : out[i].kind = "glyph"

-----------------------------------------------------------------------------
(* C19 *)

\* a test passed or failed: some observed test was not skipped
TestRan == \E i \in 1..Len(trace) : /\ trace[i].Test # <<>>
                                    /\ trace[i].Action \in {"pass", "fail"}

\* C19: isZero is true exactly when total - skipped <= 0 for the tests, that
\* is when no test was observed or every observed test was skipped; the
\* summary of every strategy never divides by zero, and computes the
\* percentage and the colour only when isZero is false.
C19_NoDivisionByZero ==
    /\ pc # "panic"
    /\ isZero(sums) <=> sums.tests.total - sums.tests.skipped <= 0
    /\ isZero(sums) <=> ~TestRan
    /\ shown.called =>
          /\ shown.zero <=> ~TestRan
          /\ 0 \notin shown.divisors
          /\ shown.zero => shown.divisors = {} /\ shown.colour = -1 /\ shown.p = 0
          /\ ~shown.zero => /\ shown.divisors # {}
                            /\ shown.colour \in 0..(ColourTableLen - 1)
                            /\ shown.p \in 0..100

\* the summary was made when every observed test had been skipped
C19_Witness ==
    /\ shown.called
    /\ shown.zero
    /\ sums.tests.skipped > 0
    /\ sums.tests.total = sums.tests.skipped

-----------------------------------------------------------------------------
(* C20 *)

\* C20: every event held in the in-flight buffer is a non-terminal event of
\* a test that has had no pass, skip or fail since the event arrived; so
\* after the stream has ended nothing is held for a test whose pass, skip or
\* fail was processed, also when the prefix changed while it was in flight.
C20_BufferOnlyInFlight ==
    \A k \in DOMAIN inProgress :
        \A i \in 1..Len(inProgress[k]) :
            /\ inProgress[k][i].Action \notin Terminal
            /\ inProgress[k][i].Test # <<>>
            /\ LastTerminal(trace, inProgress[k][i].Package, inProgress[k][i].Test)
                 < inProgress[k][i].Output

-----------------------------------------------------------------------------
(* C21 *)

\* the events of tests processed so far
TestEvents == {i \in 1..Len(trace) : trace[i].Test # <<>>}

\* C21: the key under which an event is buffered depends on (Package, Test)
\* alone: two events of the same test have the same key and two events of
\* different tests have different keys, whatever the prefix did in between.
C21_KeyIsIdentity ==
    \A i, j \in TestEvents :
        name(trace[i]) = name(trace[j])
            <=> SameTest(trace[i], trace[j].Package, trace[j].Test)

-----------------------------------------------------------------------------
(* C22 *)

\* p is made of complete leading segments of s
LeadingSegments(p, s) ==
    /\ HasPrefix(s, p)
    /\ Len(p) = Len(s) \/ s[Len(p) + 1] = "/"

\* p is the empty string or is made of complete leading segments of both
SharedSegments(p, a, b) ==
    p = <<>> \/ (LeadingSegments(p, a) /\ LeadingSegments(p, b))

\* p is the longest such string
LongestShared(p, a, b) ==
    /\ SharedSegments(p, a, b)
    /\ \A n \in (Len(p) + 1)..Len(a) : ~SharedSegments(SubSeq(a, 1, n), a, b)

\* C22: for a # b, common(a, b) is the longest string of complete leading
\* segments that a and b share, and the empty string when they share none.
C22_LongestSharedSegments ==
    cr.called /\ ca # cb => LongestShared(cr.ab, ca, cb)

-----------------------------------------------------------------------------
(* C23 *)

\* the tests that were not skipped, the divisor of the percentage
Ran(ss) == ss.tests.total - ss.tests.skipped

\* C23: when the summary is shown and isZero is false, the percentage is
\* floor(100 * passed / (total - skipped)), lies in 0..100, is 100 only when
\* no test failed, and every digit used to render it (1, 0, 0 for 100,
\* otherwise p / 10 when it is not 0, then p % 10) lies in 0..9.
C23_Percentage ==
    shown.called /\ ~isZero(sums) =>
        /\ ~shown.zero
        /\ shown.p * Ran(sums) <= 100 * sums.tests.passed
        /\ 100 * sums.tests.passed < (shown.p + 1) * Ran(sums)
        /\ shown.p \in 0..100
        /\ shown.p = 100 => sums.tests.failed = 0
        /\ \A i \in 1..Len(shown.digits) : shown.digits[i] \in 0..9
        /\ shown.digits = IF shown.p = 100 THEN <<1, 0, 0>>
                          ELSE IF shown.p >= 10
                          THEN <<shown.p \div 10, shown.p % 10>>
                          ELSE <<shown.p>>

\* the summary showed a percentage of one digit that is not 0, with a
\* skipped test aside
C23_Witness ==
    /\ shown.called
    /\ sums.tests.skipped > 0
    /\ sums.tests.failed > 0
    /\ shown.p \in 1..9
    /\ shown.digits = <<shown.p>>

-----------------------------------------------------------------------------
(* C24 *)

\* C24: when the summary is shown and isZero is false, the index into the
\* colour table is floor(9 * passed / (total - skipped)) with 9 (every test
\* passed) folded into 8, and it lies in the table, 0..8.
C24_ColourBucket ==
    shown.called /\ ~isZero(sums) =>
        /\ shown.colour \in 0..(ColourTableLen - 1)
        /\ \E f \in 0..9 :
              /\ f * Ran(sums) <= 9 * sums.tests.passed
              /\ 9 * sums.tests.passed < (f + 1) * Ran(sums)
              /\ shown.colour = IF f = 9 THEN 8 ELSE f

\* the summary was shown for a run in which every test that ran passed
C24_Witness ==
    /\ shown.called
    /\ sums.tests.passed > 0
    /\ sums.tests.failed = 0
    /\ shown.colour = 8

-----------------------------------------------------------------------------
(* C25 *)

\* the watcher of mkContext is torn down: signal.Stop was called, the channel
\* was closed and the goroutine has returned
TornDown == ~notify /\ ch.closed /\ watcher = "returned"

\* C25: the watcher is torn down on every exit path: when main has reached
\* its end, also after an interrupt cancelled the run, and when a fatal error
\* ended it.
C25_WatcherTornDown == pc \in {"done", "fatal"} => TornDown

-----------------------------------------------------------------------------
(* C26 *)

\* s without its first n characters
Drop(s, n) == SubSeq(s, n + 1, Len(s))

\* what is displayed for the package of e when its prefix is not empty: the
\* marker, then the package without the prefix, or "/" when nothing is left
Elided(e) ==
    <<ELLIPSIS>> \o (IF e.Package = e.prefix THEN <<"/">>
                     ELSE Drop(e.Package, Len(e.prefix)))

\* the display of e follows the prefix attached to e
DisplayByPrefix(e) ==
    /\ pkg(e) # <<ELLIPSIS>>
    /\ e.prefix \in {<<>>, unsetPrefix} => pkg(e) = e.Package
    /\ e.prefix \notin {<<>>, unsetPrefix} =>
          /\ HasPrefix(e.Package, e.prefix)
          /\ pkg(e) = Elided(e)

\* C26 as stated: the displayed package name of every event is never empty
\* and never the bare marker; with an empty or unset prefix it is the whole
\* Package, otherwise the marker and the Package without the prefix, which is
\* "/" when the Package is the prefix.
C26_Original ==
    \A i \in 1..Len(trace) : pkg(trace[i]) # <<>> /\ DisplayByPrefix(trace[i])

\* C26, amended: the displayed package name of an event is empty only when
\* its Package is empty (the prefix then is empty too), and is never the bare
\* marker; the rest as stated.
C26_DisplayedPackage ==
    \A i \in 1..Len(trace) :
        /\ pkg(trace[i]) = <<>> <=> trace[i].Package = <<>>
        /\ trace[i].Package = <<>> => trace[i].prefix = <<>>
        /\ DisplayByPrefix(trace[i])

\* an event whose Package is its prefix was followed by one without Package
C26_Witness ==
    \E i, j \in 1..Len(trace) :
        /\ i < j
        /\ trace[i].prefix # <<>>
        /\ trace[i].Package = trace[i].prefix
        /\ trace[j].Package = <<>>

-----------------------------------------------------------------------------
(* C27 *)

\* C27: the prefix attached to an event is a string prefix of the Package of
\* that event, whatever the seed and the earlier packages were, so that the
\* display removes exactly the attached prefix; and an event that is buffered
\* or logged keeps the prefix it got when later events narrow the prefix.
C27_AttachedPrefix ==
    /\ [](\A i \in 1..Len(trace) :
             /\ HasPrefix(trace[i].Package, trace[i].prefix)
             /\ trace[i].prefix # <<>> =>
                   Len(pkg(trace[i])) =
                       1 + (IF trace[i].Package = trace[i].prefix THEN 1
                            ELSE Len(trace[i].Package) - Len(trace[i].prefix)))
    /\ [][/\ \A i \in 1..Len(trace) : trace'[i] = trace[i]
          /\ \A i \in 1..Len(fails) : fails'[i] = fails[i]
          /\ \A k \in DOMAIN inProgress :
                \/ k \notin DOMAIN inProgress'
                \/ \A i \in 1..Len(inProgress[k]) :
                      /\ i <= Len(inProgress'[k])
                      /\ inProgress'[k][i] = inProgress[k][i]]_vars
    /\ [](\A k \in DOMAIN inProgress : \A i \in 1..Len(inProgress[k]) :
             inProgress[k][i] = trace[inProgress[k][i].Output])
    /\ [](\A i \in 1..Len(fails) : fails[i] = trace[fails[i].Output])

\* an event is buffered with a prefix that later events have narrowed
C27_Witness ==
    \E k \in DOMAIN inProgress : \E i \in 1..Len(inProgress[k]) :
        /\ inProgress[k][i].prefix # prefix
        /\ inProgress[k][i].prefix # <<>>
        /\ HasPrefix(inProgress[k][i].prefix, prefix)

-----------------------------------------------------------------------------
(* C28 *)

\* the stream has ended
Ended == pc \in {"summarizing", "dump", "done"}

\* C28: when the stream has ended with a failed test or a failed package
\* counted, the failure log is not empty and main goes through the failure
\* dump; and when the dump was printed, a fail of a test was counted.
C28_FailureMeansDump ==
    /\ Ended /\ (sums.tests.failed > 0 \/ sums.packages.failed > 0) =>
          /\ fails # <<>>
          /\ pc = "done" => printed # <<>>
    /\ printed # <<>> => sums.tests.failed > 0

====
